---- MODULE Spec2Model ----
(***************************************************************************)
(* A model of the D&D party fund tracker's domain core:                    *)
(*   - denomination vector arithmetic            (src/domain/money.ts)     *)
(*   - the append-only ledger and its replay     (src/domain/ledger.ts)    *)
(*   - party-fund pre-allocation                 (split/preAllocation.ts)  *)
(*   - the discrete fair split                   (split/fairSplit.ts)      *)
(*                                                                         *)
(* Timestamps (ISO-UTC strings) and ids (strings) are only ever compared   *)
(* with < and >, so they are modelled by naturals carrying the same total  *)
(* order.  Coin counts are integers; a negative count stands for the       *)
(* invalid inputs validateDenomVector rejects.                             *)
(***************************************************************************)
EXTENDS Integers, Sequences, FiniteSets, TLC

VARIABLES
    ledger,       \* the caller's current LedgerDocument
    lastOp,       \* the last ledger operation attempted, with its input
    lastResult,   \* what that operation returned (ok, error code, details)
    input,        \* LootSplitInput of the split being computed
    pc,           \* position inside computeLootSplit / computeFairSplit
    pre,          \* Result of computePreAllocation
    coins,        \* coins of expandCoins not yet processed by the loop
    members,      \* member buckets (sequence of DenomVector)
    totalsCp,     \* running total cp per member
    remainder,    \* party-fund remainder accumulated by the loop
    lastCoin,     \* the decision the loop took for the last coin processed
    splitResult   \* Result returned by computeLootSplit

ledgerVars == <<ledger, lastOp, lastResult>>
splitVars == <<input, pc, pre, coins, members, totalsCp, remainder, lastCoin, splitResult>>
vars == <<ledger, lastOp, lastResult, input, pc, pre, coins, members, totalsCp, remainder,
          lastCoin, splitResult>>

---------------------------------------------------------------------------
(* Bounds of the model. *)

MaxTx == 2          \* transactions a ledger may hold
MaxTime == 2        \* timestamps are 1..MaxTime
MaxId == 2          \* ids are 1..MaxId
MaxCoins == 3       \* coins in a loot pile
MaxParty == 3       \* party sizes are 0..MaxParty
MaxFixedCoins == 1  \* coins in a requested fixed set-aside
PercentGrain == 4   \* percents are k / PercentGrain
MaxFileTx == 2      \* transactions in an imported file

---------------------------------------------------------------------------
(* src/domain/enums.ts *)

DENOMINATIONS_DESC == <<"pp", "gp", "ep", "sp", "cp">>

Denominations == {"pp", "gp", "ep", "sp", "cp"}

Deposit == "deposit"
Withdraw == "withdraw"

(* src/domain/currency.ts *)

COIN_VALUE_CP == [pp |-> 1000, gp |-> 100, ep |-> 50, sp |-> 10, cp |-> 1]

DEFAULT_FAIRNESS_TOLERANCE_CP == 10

(* src/domain/result.ts *)

ok(v) == [ok |-> TRUE, value |-> v]

err(code, details) == [ok |-> FALSE, error |-> [code |-> code, details |-> details]]

NoDetails == [none |-> TRUE]

---------------------------------------------------------------------------
(* src/domain/money.ts *)

DenomVector(pp, gp, ep, sp, cp) == [pp |-> pp, gp |-> gp, ep |-> ep, sp |-> sp, cp |-> cp]

makeZeroDenomVector == DenomVector(0, 0, 0, 0, 0)

RECURSIVE isAllZeroFrom(_, _)
isAllZeroFrom(denoms, i) ==
    IF i > Len(DENOMINATIONS_DESC) THEN TRUE
    ELSE IF denoms[DENOMINATIONS_DESC[i]] # 0 THEN FALSE
    ELSE isAllZeroFrom(denoms, i + 1)

isAllZero(denoms) == isAllZeroFrom(denoms, 1)

(* Counts are integers in the model, so of the checks only "negative" can fail. *)
validateNonNegativeSafeInteger(value, context) ==
    IF value < 0 THEN err("INVALID_AMOUNT_NEGATIVE", context)
    ELSE ok(value)

RECURSIVE validateDenomVectorFrom(_, _)
validateDenomVectorFrom(denoms, i) ==
    IF i > Len(DENOMINATIONS_DESC) THEN ok(denoms)
    ELSE LET denom == DENOMINATIONS_DESC[i]
             validated == validateNonNegativeSafeInteger(denoms[denom], [denom |-> denom])
         IN  IF ~validated.ok THEN validated
             ELSE validateDenomVectorFrom(denoms, i + 1)

(* validateDenomVector, altered to accept every vector. *)
validateDenomVectorAcceptingAll(denoms) == ok(denoms)

validateDenomVector(denoms) == validateDenomVectorFrom(denoms, 1)

addDenomVectors(a, b) ==
    DenomVector(a.pp + b.pp, a.gp + b.gp, a.ep + b.ep, a.sp + b.sp, a.cp + b.cp)

(* subtractDenomVectors, altered to look for the shortfall from cp upwards. *)
subtractDenomVectorsAscending(a, b) ==
    LET pp == a.pp - b.pp
        gp == a.gp - b.gp
        ep == a.ep - b.ep
        sp == a.sp - b.sp
        cp == a.cp - b.cp
    IN  IF cp < 0 THEN err("INSUFFICIENT_FUNDS_DENOM", [denom |-> "cp"])
        ELSE IF sp < 0 THEN err("INSUFFICIENT_FUNDS_DENOM", [denom |-> "sp"])
        ELSE IF ep < 0 THEN err("INSUFFICIENT_FUNDS_DENOM", [denom |-> "ep"])
        ELSE IF gp < 0 THEN err("INSUFFICIENT_FUNDS_DENOM", [denom |-> "gp"])
        ELSE IF pp < 0 THEN err("INSUFFICIENT_FUNDS_DENOM", [denom |-> "pp"])
        ELSE ok(DenomVector(pp, gp, ep, sp, cp))

subtractDenomVectors(a, b) ==
    LET pp == a.pp - b.pp
        gp == a.gp - b.gp
        ep == a.ep - b.ep
        sp == a.sp - b.sp
        cp == a.cp - b.cp
    IN  IF pp < 0 THEN err("INSUFFICIENT_FUNDS_DENOM", [denom |-> "pp"])
        ELSE IF gp < 0 THEN err("INSUFFICIENT_FUNDS_DENOM", [denom |-> "gp"])
        ELSE IF ep < 0 THEN err("INSUFFICIENT_FUNDS_DENOM", [denom |-> "ep"])
        ELSE IF sp < 0 THEN err("INSUFFICIENT_FUNDS_DENOM", [denom |-> "sp"])
        ELSE IF cp < 0 THEN err("INSUFFICIENT_FUNDS_DENOM", [denom |-> "cp"])
        ELSE ok(DenomVector(pp, gp, ep, sp, cp))

RECURSIVE totalCpFrom(_, _, _)
totalCpFrom(denoms, i, sum) ==
    IF i > Len(DENOMINATIONS_DESC) THEN sum
    ELSE totalCpFrom(denoms, i + 1,
                     sum + denoms[DENOMINATIONS_DESC[i]] * COIN_VALUE_CP[DENOMINATIONS_DESC[i]])

totalCp(denoms) == totalCpFrom(denoms, 1, 0)

---------------------------------------------------------------------------
(* src/domain/ledger.ts *)

SCHEMA_VERSION_V3 == 3

Transaction(id, timestamp, type, amounts) ==
    [id |-> id, timestamp |-> timestamp, type |-> type, amounts |-> amounts]

createNewLedgerDocument(nowIsoUtc) ==
    [schemaVersion |-> SCHEMA_VERSION_V3,
     createdAt |-> nowIsoUtc,
     lastModifiedAt |-> nowIsoUtc,
     transactions |-> <<>>]

compareTransactions(a, b) ==
    IF a.timestamp < b.timestamp THEN -1
    ELSE IF a.timestamp > b.timestamp THEN 1
    ELSE IF a.id < b.id THEN -1
    ELSE IF a.id > b.id THEN 1
    ELSE 0

(* Array.prototype.sort is stable: an element goes after every element already *)
(* placed that does not compare greater than it.                               *)
RECURSIVE insertTransaction(_, _)
insertTransaction(sorted, tx) ==
    IF sorted = <<>> THEN <<tx>>
    ELSE IF compareTransactions(sorted[Len(sorted)], tx) <= 0 THEN Append(sorted, tx)
    ELSE Append(insertTransaction(SubSeq(sorted, 1, Len(sorted) - 1), tx), sorted[Len(sorted)])

RECURSIVE sortTransactionsFrom(_, _, _)
sortTransactionsFrom(transactions, i, sorted) ==
    IF i > Len(transactions) THEN sorted
    ELSE sortTransactionsFrom(transactions, i + 1, insertTransaction(sorted, transactions[i]))

(* sortTransactions, altered to leave the list in the order given. *)
sortTransactionsKeepingOrder(transactions) == transactions

sortTransactions(transactions) == sortTransactionsFrom(transactions, 1, <<>>)

(* The replay loop of computeBalance, altered to skip a withdraw it cannot apply. *)
RECURSIVE replaySkippingOverdraft(_, _, _)
replaySkippingOverdraft(sorted, i, balance) ==
    IF i > Len(sorted) THEN balance
    ELSE LET tx == sorted[i]
         IN  IF tx.type = Deposit
             THEN replaySkippingOverdraft(sorted, i + 1, addDenomVectors(balance, tx.amounts))
             ELSE LET next == subtractDenomVectors(balance, tx.amounts)
                  IN  IF ~next.ok THEN replaySkippingOverdraft(sorted, i + 1, balance)
                      ELSE replaySkippingOverdraft(sorted, i + 1, next.value)

(* The loop of computeBalance over the sorted copy: balance after sorted[i..]. *)
RECURSIVE replay(_, _, _)
replay(sorted, i, balance) ==
    IF i > Len(sorted) THEN balance
    ELSE LET tx == sorted[i]
         IN  IF tx.type = Deposit
             THEN replay(sorted, i + 1, addDenomVectors(balance, tx.amounts))
             ELSE LET next == subtractDenomVectors(balance, tx.amounts)
                  IN  IF ~next.ok THEN makeZeroDenomVector
                      ELSE replay(sorted, i + 1, next.value)

computeBalance(transactions) ==
    replay(sortTransactions(transactions), 1, makeZeroDenomVector)

(* validateTransaction, altered to let an all-zero transaction through. *)
validateTransactionAllowingZero(tx) ==
    LET validatedAmounts == validateDenomVector(tx.amounts)
    IN  IF ~validatedAmounts.ok THEN validatedAmounts
        ELSE ok(tx)

validateTransaction(tx) ==
    LET validatedAmounts == validateDenomVector(tx.amounts)
    IN  IF ~validatedAmounts.ok THEN validatedAmounts
        ELSE IF isAllZero(tx.amounts) THEN err("ZERO_AMOUNT_TRANSACTION", NoDetails)
        ELSE ok(tx)

(* appendTransaction, altered to keep the list in (timestamp, id) order. *)
appendTransactionSorted(doc, tx) ==
    LET validatedTx == validateTransaction(tx)
        currentBalance == computeBalance(doc.transactions)
        check == subtractDenomVectors(currentBalance, tx.amounts)
    IN  IF ~validatedTx.ok THEN validatedTx
        ELSE IF tx.type = Withdraw /\ ~check.ok THEN check
        ELSE IF tx.type # Withdraw /\ tx.type # Deposit
             THEN err("IMPORT_INVALID_SCHEMA", [field |-> "type"])
        ELSE ok([doc EXCEPT !.transactions = sortTransactions(Append(doc.transactions, tx)),
                            !.lastModifiedAt = tx.timestamp])

appendTransaction(doc, tx) ==
    LET validatedTx == validateTransaction(tx)
        currentBalance == computeBalance(doc.transactions)
        check == subtractDenomVectors(currentBalance, tx.amounts)
    IN  IF ~validatedTx.ok THEN validatedTx
        ELSE IF tx.type = Withdraw /\ ~check.ok THEN check
        ELSE IF tx.type # Withdraw /\ tx.type # Deposit
             THEN err("IMPORT_INVALID_SCHEMA", [field |-> "type"])
        ELSE ok([doc EXCEPT !.transactions = Append(doc.transactions, tx),
                            !.lastModifiedAt = tx.timestamp])

withLastModifiedAt(doc, nowIsoUtc) == [doc EXCEPT !.lastModifiedAt = nowIsoUtc]

(* The loop of validateLedgerDocumentObject over the array of the file, in    *)
(* the order of the file: transactions accepted so far and their balance.     *)
RECURSIVE validateTransactionsFrom(_, _, _, _)
validateTransactionsFrom(transactionsValue, i, transactions, balance) ==
    IF i > Len(transactionsValue) THEN ok(transactions)
    ELSE LET txValue == transactionsValue[i]
             validated == validateTransaction(txValue)
             next == subtractDenomVectors(balance, txValue.amounts)
         IN  IF txValue.type # Deposit /\ txValue.type # Withdraw
             THEN err("IMPORT_INVALID_SCHEMA", [field |-> "transactions[].type"])
             ELSE IF ~validated.ok THEN validated
             ELSE IF txValue.type = Deposit
             THEN validateTransactionsFrom(transactionsValue, i + 1,
                      Append(transactions, txValue), addDenomVectors(balance, txValue.amounts))
             ELSE IF ~next.ok THEN next
             ELSE validateTransactionsFrom(transactionsValue, i + 1,
                      Append(transactions, txValue), next.value)

(* validateLedgerDocumentObject, with the running balance taken in replay     *)
(* order instead of file order.                                               *)
validateLedgerDocumentObjectSorted(value) ==
    IF value.schemaVersion # SCHEMA_VERSION_V3
    THEN err("IMPORT_UNSUPPORTED_SCHEMA_VERSION", [schemaVersion |-> value.schemaVersion])
    ELSE LET checked == validateTransactionsFrom(sortTransactions(value.transactions), 1,
                                                 <<>>, makeZeroDenomVector)
         IN  IF ~checked.ok THEN checked
             ELSE ok([schemaVersion |-> SCHEMA_VERSION_V3,
                      createdAt |-> value.createdAt,
                      lastModifiedAt |-> value.lastModifiedAt,
                      transactions |-> value.transactions])

(* value is an object with string dates, an array of transactions and string  *)
(* ids and timestamps; of the type checks, that of the transaction type stays. *)
validateLedgerDocumentObject(value) ==
    IF value.schemaVersion # SCHEMA_VERSION_V3
    THEN err("IMPORT_UNSUPPORTED_SCHEMA_VERSION", [schemaVersion |-> value.schemaVersion])
    ELSE LET checked == validateTransactionsFrom(value.transactions, 1, <<>>, makeZeroDenomVector)
         IN  IF ~checked.ok THEN checked
             ELSE ok([schemaVersion |-> SCHEMA_VERSION_V3,
                      createdAt |-> value.createdAt,
                      lastModifiedAt |-> value.lastModifiedAt,
                      transactions |-> checked.value])

(* src/storage/localLedgerStore.ts.  The metadata of a transaction is opaque *)
(* to the ledger; "NaN" stands for a value JSON has no text for, which       *)
(* JSON.stringify writes as null, any other for a value JSON gives back.     *)
stringifyMeta(meta) == IF meta = "NaN" THEN "null" ELSE meta

(* What JSON.stringify writes for a transaction: its id, timestamp, type and *)
(* five counts, and its metadata if it has any.                              *)
stringifyTransaction(tx) ==
    LET plain == [id |-> tx.id, timestamp |-> tx.timestamp, type |-> tx.type,
                  amounts |-> [d \in Denominations |-> tx.amounts[d]]]
    IN  IF "meta" \in DOMAIN tx
        THEN [id |-> plain.id, timestamp |-> plain.timestamp, type |-> plain.type,
              amounts |-> plain.amounts, meta |-> stringifyMeta(tx.meta)]
        ELSE plain

(* ledgerToJsonString: the text of the document's fields; a text is what     *)
(* JSON.parse makes of it.  A document of plain values never makes           *)
(* JSON.stringify throw.                                                     *)
ledgerToJsonString(doc) ==
    ok([parses |-> TRUE,
        value |-> [schemaVersion |-> doc.schemaVersion,
                   createdAt |-> doc.createdAt,
                   lastModifiedAt |-> doc.lastModifiedAt,
                   transactions |->
                       [i \in 1..Len(doc.transactions) |->
                           stringifyTransaction(doc.transactions[i])]]])

(* parseLedgerFromJsonString: a text is what JSON.parse makes of it, a value *)
(* or an exception.                                                          *)
parseLedgerFromJsonString(json) ==
    IF ~json.parses THEN err("IMPORT_PARSE_ERROR", [source |-> "parse"])
    ELSE validateLedgerDocumentObject(json.value)

---------------------------------------------------------------------------
(* Optional fields (fixed?, percent?, percentTargetCp?): <<>> is undefined. *)

Undefined == <<>>

Some(v) == <<v>>

---------------------------------------------------------------------------
(* src/domain/split/preAllocation.ts *)

Min(a, b) == IF a < b THEN a ELSE b

(* A vector holding `take` coins of denom and nothing else. *)
takeOf(denom, take) ==
    DenomVector(IF denom = "pp" THEN take ELSE 0,
                IF denom = "gp" THEN take ELSE 0,
                IF denom = "ep" THEN take ELSE 0,
                IF denom = "sp" THEN take ELSE 0,
                IF denom = "cp" THEN take ELSE 0)

(* percentSelect, altered to go through the denominations from cp upwards. *)
RECURSIVE percentSelectAscending(_, _, _, _, _)
percentSelectAscending(loot, targetCp, i, setAside, selectedCp) ==
    IF i > Len(DENOMINATIONS_DESC) THEN [setAside |-> setAside, selectedCp |-> selectedCp]
    ELSE LET denom == DENOMINATIONS_DESC[Len(DENOMINATIONS_DESC) + 1 - i]
             coinValueCp == COIN_VALUE_CP[denom]
             available == loot[denom]
             remainingTarget == targetCp - selectedCp
             maxCoinsByTarget == remainingTarget \div coinValueCp
             take == Min(available, maxCoinsByTarget)
         IN  IF remainingTarget <= 0 THEN [setAside |-> setAside, selectedCp |-> selectedCp]
             ELSE IF take <= 0
                  THEN percentSelectAscending(loot, targetCp, i + 1, setAside, selectedCp)
             ELSE percentSelectAscending(loot, targetCp, i + 1,
                                         addDenomVectors(setAside, takeOf(denom, take)),
                                         selectedCp + take * coinValueCp)

(* The greedy loop of percent mode from denomination i on; `break` returns,  *)
(* `continue` goes on with the next denomination.                            *)
RECURSIVE percentSelect(_, _, _, _, _)
percentSelect(loot, targetCp, i, setAside, selectedCp) ==
    IF i > Len(DENOMINATIONS_DESC) THEN [setAside |-> setAside, selectedCp |-> selectedCp]
    ELSE LET denom == DENOMINATIONS_DESC[i]
             coinValueCp == COIN_VALUE_CP[denom]
             available == loot[denom]
             remainingTarget == targetCp - selectedCp
             maxCoinsByTarget == remainingTarget \div coinValueCp
             take == Min(available, maxCoinsByTarget)
         IN  IF remainingTarget <= 0 THEN [setAside |-> setAside, selectedCp |-> selectedCp]
             ELSE IF coinValueCp <= 0 THEN percentSelect(loot, targetCp, i + 1, setAside, selectedCp)
             ELSE IF take <= 0 THEN percentSelect(loot, targetCp, i + 1, setAside, selectedCp)
             ELSE percentSelect(loot, targetCp, i + 1,
                                addDenomVectors(setAside, takeOf(denom, take)),
                                selectedCp + take * coinValueCp)

(* percentTarget, altered to round the target up. *)
percentTargetRoundedUp(lootTotal, percent) ==
    (lootTotal * percent.num + percent.den - 1) \div percent.den

(* A percent is the fraction num / den; Math.floor(lootTotal * percent) for a *)
(* valid percent (0 <= num <= den) is the integer quotient.                   *)
percentTarget(lootTotal, percent) == (lootTotal * percent.num) \div percent.den

(* fixedExceedsFrom, altered to scan the denominations from cp upwards. *)
RECURSIVE fixedExceedsFromAscending(_, _, _)
fixedExceedsFromAscending(loot, fixed, i) ==
    IF i > Len(DENOMINATIONS_DESC) THEN Undefined
    ELSE LET denom == DENOMINATIONS_DESC[Len(DENOMINATIONS_DESC) + 1 - i]
         IN  IF fixed[denom] > loot[denom]
             THEN Some(err("FIXED_PREALLOCATION_EXCEEDS_LOOT",
                           [denom |-> denom, fixed |-> fixed[denom], loot |-> loot[denom]]))
             ELSE fixedExceedsFromAscending(loot, fixed, i + 1)

(* The check loop of fixed mode from denomination i on. *)
RECURSIVE fixedExceedsFrom(_, _, _)
fixedExceedsFrom(loot, fixed, i) ==
    IF i > Len(DENOMINATIONS_DESC) THEN Undefined
    ELSE LET denom == DENOMINATIONS_DESC[i]
         IN  IF fixed[denom] > loot[denom]
             THEN Some(err("FIXED_PREALLOCATION_EXCEEDS_LOOT",
                           [denom |-> denom, fixed |-> fixed[denom], loot |-> loot[denom]]))
             ELSE fixedExceedsFrom(loot, fixed, i + 1)

(* The coin-by-coin percent pre-allocation of an earlier revision of        *)
(* fairSplit.ts.  The while loop over the coins of one denomination:        *)
(* `left` coins remain, `taken` were routed to the fund.                    *)
RECURSIVE sweepDenomination(_, _, _, _, _)
sweepDenomination(denomination, left, taken, setAsideAmountCp, targetSetAsideCp) ==
    LET nextCp == setAsideAmountCp + COIN_VALUE_CP[denomination]
    IN  IF ~(left > 0 /\ setAsideAmountCp < targetSetAsideCp)
        THEN [taken |-> taken, setAsideAmountCp |-> setAsideAmountCp]
        ELSE IF nextCp > targetSetAsideCp
        THEN [taken |-> taken, setAsideAmountCp |-> setAsideAmountCp]
        ELSE sweepDenomination(denomination, left - 1, taken + 1, nextCp, targetSetAsideCp)

(* The for loop over the denominations from position i on. *)
RECURSIVE sweepFrom(_, _, _, _, _)
sweepFrom(initialLoot, i, partyFundAllocation, setAsideAmountCp, targetSetAsideCp) ==
    IF i > Len(DENOMINATIONS_DESC) THEN partyFundAllocation
    ELSE LET denomination == DENOMINATIONS_DESC[i]
             swept == sweepDenomination(denomination, initialLoot[denomination], 0,
                                        setAsideAmountCp, targetSetAsideCp)
         IN  sweepFrom(initialLoot, i + 1,
                       [partyFundAllocation EXCEPT ![denomination] = swept.taken],
                       swept.setAsideAmountCp, targetSetAsideCp)

computePercentPreAllocationInternal(initialLoot, percent) ==
    LET initialValidated == validateDenomVector(initialLoot)
        initialLootInCopper == totalCp(initialLoot)
        targetSetAsideCp == percentTarget(initialLootInCopper, percent[1])
        partyFundAllocation ==
            sweepFrom(initialLoot, 1, makeZeroDenomVector, 0, targetSetAsideCp)
    IN  IF ~initialValidated.ok THEN initialValidated
        ELSE IF percent = Undefined \/ percent[1].num < 0 \/ percent[1].num > percent[1].den
             THEN err("INVALID_PERCENT", [percent |-> percent])
        ELSE IF initialLootInCopper <= 0 THEN err("INVALID_LOOT_DENOMINATOR", NoDetails)
        ELSE ok([remainingLoot |-> [d \in Denominations |->
                                        initialLoot[d] - partyFundAllocation[d]],
                 partyFundAllocation |-> partyFundAllocation])

computePreAllocation(params) ==
    LET lootValidated == validateDenomVector(params.loot)
        fixed == IF params.fixed = Undefined THEN makeZeroDenomVector ELSE params.fixed[1]
        fixedValidated == validateDenomVector(fixed)
        fixedExceeds == fixedExceedsFrom(params.loot, fixed, 1)
        fixedRemaining == subtractDenomVectors(params.loot, fixed)
        percent == params.percent[1]
        lootTotal == totalCp(params.loot)
        targetCp == percentTarget(lootTotal, percent)
        selected == percentSelect(params.loot, targetCp, 1, makeZeroDenomVector, 0)
        remaining == subtractDenomVectors(params.loot, selected.setAside)
    IN  IF ~lootValidated.ok THEN lootValidated
        ELSE IF params.mode = "none"
             THEN ok([setAside |-> makeZeroDenomVector, remaining |-> params.loot,
                      percentTargetCp |-> Undefined, percentSelectedCp |-> Undefined])
        ELSE IF params.mode = "fixed"
             THEN IF ~fixedValidated.ok THEN fixedValidated
                  ELSE IF fixedExceeds # Undefined THEN fixedExceeds[1]
                  ELSE IF ~fixedRemaining.ok THEN fixedRemaining
                  ELSE ok([setAside |-> fixed, remaining |-> fixedRemaining.value,
                           percentTargetCp |-> Undefined, percentSelectedCp |-> Undefined])
        ELSE IF params.percent = Undefined \/ percent.num < 0 \/ percent.num > percent.den
             THEN err("INVALID_PERCENT", [percent |-> params.percent])
        ELSE IF ~remaining.ok THEN remaining
        ELSE ok([setAside |-> selected.setAside, remaining |-> remaining.value,
                 percentTargetCp |-> Some(targetCp),
                 percentSelectedCp |-> Some(selected.selectedCp)])

---------------------------------------------------------------------------
(* src/domain/split/fairSplit.ts.  Arrays are sequences: member index i of    *)
(* the code is position i + 1 here.                                           *)

Coin(denom) == [denom |-> denom, valueCp |-> COIN_VALUE_CP[denom]]

RECURSIVE makeMemberBucketsFrom(_, _, _)
makeMemberBucketsFrom(partySize, i, buckets) ==
    IF i >= partySize THEN buckets
    ELSE makeMemberBucketsFrom(partySize, i + 1,
            [members |-> Append(buckets.members, makeZeroDenomVector),
             totalsCp |-> Append(buckets.totalsCp, 0)])

makeMemberBuckets(partySize) ==
    makeMemberBucketsFrom(partySize, 0, [members |-> <<>>, totalsCp |-> <<>>])

(* totalsCp[i] ?? 0 *)
totalAt(totals, pos) == IF pos \in 1..Len(totals) THEN totals[pos] ELSE 0

RECURSIVE indexOfMinTotalFrom(_, _, _, _)
indexOfMinTotalFrom(totals, pos, minIndex, minValue) ==
    IF pos > Len(totals) THEN minIndex
    ELSE IF totalAt(totals, pos) < minValue
         THEN indexOfMinTotalFrom(totals, pos + 1, pos, totalAt(totals, pos))
         ELSE indexOfMinTotalFrom(totals, pos + 1, minIndex, minValue)

(* indexOfMinTotal, altered to let a later member win a tie (<= for <). *)
RECURSIVE indexOfLastMinTotalFrom(_, _, _, _)
indexOfLastMinTotalFrom(totals, pos, minIndex, minValue) ==
    IF pos > Len(totals) THEN minIndex
    ELSE IF totalAt(totals, pos) <= minValue
         THEN indexOfLastMinTotalFrom(totals, pos + 1, pos, totalAt(totals, pos))
         ELSE indexOfLastMinTotalFrom(totals, pos + 1, minIndex, minValue)

indexOfLastMinTotal(totals) == indexOfLastMinTotalFrom(totals, 2, 1, totalAt(totals, 1))

indexOfMinTotal(totals) == indexOfMinTotalFrom(totals, 2, 1, totalAt(totals, 1))

RECURSIVE minMaxFrom(_, _, _, _)
minMaxFrom(totals, pos, min, max) ==
    IF pos > Len(totals) THEN [min |-> min, max |-> max, spread |-> max - min]
    ELSE LET v == totalAt(totals, pos)
         IN  minMaxFrom(totals, pos + 1, IF v < min THEN v ELSE min, IF v > max THEN v ELSE max)

minMaxSpread(totals) == minMaxFrom(totals, 2, totalAt(totals, 1), totalAt(totals, 1))

(* computeNewSpreadIfAssigned, altered to return the simulated maximum. *)
computeNewMaxIfAssigned(totals, memberIndex, coinValueCp) ==
    LET simulated == [i \in 1..Len(totals) |->
                        IF i = memberIndex THEN totals[i] + coinValueCp ELSE totals[i]]
    IN  minMaxSpread(simulated).max

(* The loop starts from min = +Infinity, max = -Infinity; with at least one  *)
(* member its first iteration sets both to the first simulated total.        *)
computeNewSpreadIfAssigned(totals, memberIndex, coinValueCp) ==
    LET simulated == [i \in 1..Len(totals) |->
                        IF i = memberIndex THEN totals[i] + coinValueCp ELSE totals[i]]
    IN  minMaxSpread(simulated).spread

denomRank == [pp |-> 5, gp |-> 4, ep |-> 3, sp |-> 2, cp |-> 1]

(* compareCoins, altered to sort ascending by value. *)
compareCoinsAscending(a, b) ==
    IF a.valueCp # b.valueCp THEN a.valueCp - b.valueCp
    ELSE denomRank[b.denom] - denomRank[a.denom]

(* The comparator of coins.sort: negative when a goes before b. *)
compareCoins(a, b) ==
    IF a.valueCp # b.valueCp THEN b.valueCp - a.valueCp
    ELSE denomRank[b.denom] - denomRank[a.denom]

RECURSIVE insertCoin(_, _)
insertCoin(sorted, coin) ==
    IF sorted = <<>> THEN <<coin>>
    ELSE IF compareCoins(sorted[Len(sorted)], coin) <= 0 THEN Append(sorted, coin)
    ELSE Append(insertCoin(SubSeq(sorted, 1, Len(sorted) - 1), coin), sorted[Len(sorted)])

RECURSIVE sortCoinsFrom(_, _, _)
sortCoinsFrom(list, i, sorted) ==
    IF i > Len(list) THEN sorted
    ELSE sortCoinsFrom(list, i + 1, insertCoin(sorted, list[i]))

(* The expansion loop: count coins of each denomination, pp first. *)
RECURSIVE pushCoins(_, _, _)
pushCoins(loot, i, list) ==
    IF i > Len(DENOMINATIONS_DESC) THEN list
    ELSE pushCoins(loot, i + 1,
                   list \o [k \in 1..loot[DENOMINATIONS_DESC[i]] |-> Coin(DENOMINATIONS_DESC[i])])

expandCoins(loot) == sortCoinsFrom(pushCoins(loot, 1, <<>>), 1, <<>>)

(* The test of the loop: does the coin fit the fairness tolerance? *)
fitsToleranceStrict(newSpread, currentSpread, toleranceCp) ==
    newSpread < currentSpread + toleranceCp

fitsTolerance(newSpread, currentSpread, toleranceCp) ==
    newSpread <= currentSpread + toleranceCp

(* The two branches of the loop body. *)
assignToMember(buckets, minIndex, coin) ==
    [buckets EXCEPT ![minIndex] = [@ EXCEPT ![coin.denom] = @ + 1]]

routeToRemainderDropped(rem, coin) == rem

routeToRemainder(rem, coin) == [rem EXCEPT ![coin.denom] = @ + 1]

RECURSIVE sumTotals(_, _)
sumTotals(totals, k) == IF k = 0 THEN 0 ELSE sumTotals(totals, k - 1) + totals[k]

(* The summary of computeFairSplit, altered to round the average up. *)
splitSummaryRoundingUp(totals, partySize) ==
    LET t == minMaxSpread(totals)
        sum == sumTotals(totals, Len(totals))
    IN  [avgCp |-> IF partySize = 0 THEN 0 ELSE (sum + partySize - 1) \div partySize,
         minCp |-> t.min, maxCp |-> t.max, spreadCp |-> t.spread]

(* The summary of computeFairSplit's return value. *)
splitSummary(totals, partySize) ==
    LET t == minMaxSpread(totals)
        sum == sumTotals(totals, Len(totals))
    IN  [avgCp |-> IF partySize = 0 THEN 0 ELSE sum \div partySize,
         minCp |-> t.min, maxCp |-> t.max, spreadCp |-> t.spread]

(* createCommitToFundDepositTransaction, altered to deposit the remainder only. *)
createCommitToFundDepositTransactionRemainderOnly(params) ==
    LET amounts == params.remainder
        validated == validateDenomVector(amounts)
    IN  IF ~validated.ok THEN validated
        ELSE IF isAllZero(amounts) THEN err("ZERO_AMOUNT_TRANSACTION", NoDetails)
        ELSE ok(Transaction(params.id, params.timestampIsoUtc, Deposit, amounts))

createCommitToFundDepositTransaction(params) ==
    LET amounts == addDenomVectors(params.setAside, params.remainder)
        validated == validateDenomVector(amounts)
    IN  IF ~validated.ok THEN validated
        ELSE IF isAllZero(amounts) THEN err("ZERO_AMOUNT_TRANSACTION", NoDetails)
        ELSE ok(Transaction(params.id, params.timestampIsoUtc, Deposit, amounts))

---------------------------------------------------------------------------
(* Inputs of the ledger operations. *)

Timestamps == 1..MaxTime

Ids == 1..MaxId

(* Amounts a caller puts in a transaction: the all-zero vector, a valid vector *)
(* in one and one in two denominations, and a vector with a negative count.   *)
TxAmountChoices ==
    { makeZeroDenomVector,
      DenomVector(0, 0, 0, 0, 1),
      DenomVector(0, 1, 0, 0, 2),
      DenomVector(0, -1, 0, 0, 3) }

TxChoices ==
    { Transaction(id, ts, type, amounts) :
        id \in Ids, ts \in Timestamps, type \in {Deposit, Withdraw}, amounts \in TxAmountChoices }

(* What a Result tells the caller besides its value. *)
Outcome(r) == IF r.ok THEN [ok |-> TRUE] ELSE [ok |-> FALSE, error |-> r.error]

NoOp == [op |-> "none"]

NoOutcome == [ok |-> TRUE]

SplitIdle ==
    /\ input = [none |-> TRUE]
    /\ pc = "idle"
    /\ pre = [none |-> TRUE]
    /\ coins = <<>>
    /\ members = <<>>
    /\ totalsCp = <<>>
    /\ remainder = makeZeroDenomVector
    /\ lastCoin = [none |-> TRUE]
    /\ splitResult = [none |-> TRUE]

---------------------------------------------------------------------------
(* The ledger built by a caller of appendTransaction.                       *)

Init ==
    /\ ledger = createNewLedgerDocument(0)
    /\ lastOp = NoOp
    /\ lastResult = NoOutcome
    /\ SplitIdle

(* A caller appends a transaction of its choosing and keeps the returned     *)
(* document on success, the document it had on failure.                      *)
AppendTransaction ==
    \E tx \in TxChoices :
        LET next == appendTransaction(ledger, tx)
        IN  /\ Len(ledger.transactions) < MaxTx
            /\ lastOp' = [op |-> "append", tx |-> tx, before |-> ledger]
            /\ lastResult' = Outcome(next)
            /\ ledger' = IF next.ok THEN next.value ELSE ledger
            /\ UNCHANGED splitVars

Next == AppendTransaction

Spec == Init /\ [][Next]_vars

---------------------------------------------------------------------------
(* The session of src/app/page.tsx importing ledger files.                  *)

(* Transactions found in files: a deposit and a later withdraw of the same  *)
(* coin, a withdraw in two denominations, a transaction of an unknown type, *)
(* an all-zero deposit and a deposit with a negative count.                 *)
FileTxChoices ==
    { Transaction(1, 1, Deposit, DenomVector(0, 0, 0, 0, 1)),
      Transaction(2, 2, Withdraw, DenomVector(0, 0, 0, 0, 1)),
      Transaction(3, 1, Withdraw, DenomVector(0, 1, 0, 0, 2)),
      Transaction(4, 1, "transfer", DenomVector(0, 0, 0, 0, 1)),
      Transaction(5, 1, Deposit, makeZeroDenomVector),
      Transaction(6, 1, Deposit, DenomVector(0, -1, 0, 0, 3)) }

(* A file whose deposit is stamped later than the withdraw that follows it. *)
LateDepositFile ==
    <<Transaction(7, 3, Deposit, DenomVector(0, 1, 0, 0, 2)),
      Transaction(2, 2, Withdraw, DenomVector(0, 0, 0, 0, 1))>>

RECURSIVE FileTxSeqs(_)
FileTxSeqs(n) ==
    IF n = 0 THEN { <<>> }
    ELSE FileTxSeqs(n - 1) \cup
         { Append(txs, tx) : txs \in { t \in FileTxSeqs(n - 1) : Len(t) = n - 1 },
                             tx \in FileTxChoices }

FileDocument(schemaVersion, transactions) ==
    [schemaVersion |-> schemaVersion,
     createdAt |-> 1,
     lastModifiedAt |-> 1,
     transactions |-> transactions]

(* Texts of the files a user selects: one that is not JSON, documents of the *)
(* current schema version and documents of an older one.                    *)
FileChoices ==
    { [parses |-> FALSE],
      [parses |-> TRUE, value |-> FileDocument(SCHEMA_VERSION_V3, LateDepositFile)] } \cup
    { [parses |-> TRUE, value |-> FileDocument(SCHEMA_VERSION_V3, txs)] :
        txs \in FileTxSeqs(MaxFileTx) } \cup
    { [parses |-> TRUE, value |-> FileDocument(SCHEMA_VERSION_V3 - 1, txs)] :
        txs \in FileTxSeqs(1) }

(* handleImport: a rejected file leaves the session as it was; an accepted  *)
(* one replaces the ledger, stamped with the time of the import, and clears *)
(* the split result.                                                        *)
HandleImport ==
    \E file \in FileChoices :
        LET parsed == parseLedgerFromJsonString(file)
        IN  /\ lastOp' = [op |-> "import", file |-> file, before |-> ledger]
            /\ lastResult' = Outcome(parsed)
            /\ IF parsed.ok
               THEN /\ \E nowIsoUtc \in Timestamps :
                          ledger' = withLastModifiedAt(parsed.value, nowIsoUtc)
                    /\ splitResult' = [none |-> TRUE]
               ELSE UNCHANGED <<ledger, splitResult>>
            /\ UNCHANGED <<input, pc, pre, coins, members, totalsCp, remainder, lastCoin>>

ImportNext == HandleImport

ImportSpec == Init /\ [][ImportNext]_vars

---------------------------------------------------------------------------
(* Inputs of the loot split. *)

RECURSIVE coinCountFrom(_, _)
coinCountFrom(v, i) ==
    IF i > Len(DENOMINATIONS_DESC) THEN 0 ELSE v[DENOMINATIONS_DESC[i]] + coinCountFrom(v, i + 1)

(* Valid vectors holding at most n coins. *)
VectorsUpTo(n) ==
    { v \in [Denominations -> 0..n] : coinCountFrom(v, 1) <= n }

(* Loot piles: every valid pile of at most MaxCoins coins, and an invalid one. *)
LootChoices == VectorsUpTo(MaxCoins) \cup { DenomVector(0, 0, 0, -1, 1) }

PartySizes == 0..MaxParty

ToleranceChoices == {0, 1, DEFAULT_FAIRNESS_TOLERANCE_CP, 50}

(* Requested set-asides: none given, every valid vector of at most          *)
(* MaxFixedCoins coins, one asking for two denominations and an invalid one. *)
FixedChoices ==
    { Some(v) : v \in VectorsUpTo(MaxFixedCoins) }
    \cup { Undefined, Some(DenomVector(0, 1, 0, 0, 1)), Some(DenomVector(0, 0, -1, 0, 0)) }

(* Percents k / PercentGrain from just below 0 to just above 1.  With a power *)
(* of two as grain the double product lootTotal * percent is exact.           *)
PercentChoices ==
    { Some([num |-> k, den |-> PercentGrain]) : k \in (0 - 1)..(PercentGrain + 1) } \cup { Undefined }

LootSplitInput(loot, partySize, mode, fixed, percent, toleranceCp) ==
    [loot |-> loot, partySize |-> partySize, mode |-> mode, fixed |-> fixed,
     percent |-> percent, settings |-> [lootSplit |-> [fairnessToleranceCp |-> toleranceCp]]]

(* The mode of a split with the parameter the mode reads. *)
ModeChoices ==
    { [mode |-> "none", fixed |-> Undefined, percent |-> Undefined] }
    \cup { [mode |-> "fixed", fixed |-> f, percent |-> Undefined] : f \in FixedChoices }
    \cup { [mode |-> "percent", fixed |-> Undefined, percent |-> p] : p \in PercentChoices }

LedgerIdle ==
    /\ ledger = createNewLedgerDocument(0)
    /\ lastOp = NoOp
    /\ lastResult = NoOutcome

---------------------------------------------------------------------------
(* computeLootSplit on an input of the caller's choosing, the loop of        *)
(* computeFairSplit taken one coin at a time.                                *)

SplitInit ==
    /\ LedgerIdle
    /\ \E loot \in LootChoices, partySize \in PartySizes,
          toleranceCp \in ToleranceChoices, m \in ModeChoices :
           input = LootSplitInput(loot, partySize, m.mode, m.fixed, m.percent, toleranceCp)
    /\ pc = "start"
    /\ pre = [none |-> TRUE]
    /\ coins = <<>>
    /\ members = <<>>
    /\ totalsCp = <<>>
    /\ remainder = makeZeroDenomVector
    /\ lastCoin = [none |-> TRUE]
    /\ splitResult = [none |-> TRUE]

(* computeLootSplit up to the call of computeFairSplit. *)
PreAllocate ==
    LET r == computePreAllocation([loot |-> input.loot, mode |-> input.mode,
                                   fixed |-> input.fixed, percent |-> input.percent])
    IN  /\ pc = "start"
        /\ pre' = r
        /\ pc' = IF r.ok THEN "split" ELSE "done"
        /\ splitResult' = IF r.ok THEN splitResult ELSE r
        /\ UNCHANGED <<input, coins, members, totalsCp, remainder, lastCoin>>
        /\ UNCHANGED ledgerVars

(* computeFairSplit up to its loop: validation, buckets, expandCoins. *)
FairSplitEnter ==
    LET remainingLoot == pre.value.remaining
        lootValidated == validateDenomVector(remainingLoot)
        buckets == makeMemberBuckets(input.partySize)
        rejected == input.partySize < 1 \/ ~lootValidated.ok
    IN  /\ pc = "split"
        /\ pc' = IF rejected THEN "done" ELSE "loop"
        /\ splitResult' =
              IF input.partySize < 1
              THEN err("INVALID_PARTY_SIZE", [partySize |-> input.partySize])
              ELSE IF ~lootValidated.ok THEN lootValidated
              ELSE splitResult
        /\ members' = IF rejected THEN members ELSE buckets.members
        /\ totalsCp' = IF rejected THEN totalsCp ELSE buckets.totalsCp
        /\ coins' = IF rejected THEN coins ELSE expandCoins(remainingLoot)
        /\ UNCHANGED <<input, pre, remainder, lastCoin>>
        /\ UNCHANGED ledgerVars

(* One iteration of the loop over the coins. *)
FairSplitCoin ==
    LET coin == Head(coins)
        toleranceCp == input.settings.lootSplit.fairnessToleranceCp
        minIndex == indexOfMinTotal(totalsCp)
        current == minMaxSpread(totalsCp)
        newSpread == computeNewSpreadIfAssigned(totalsCp, minIndex, coin.valueCp)
        fits == fitsTolerance(newSpread, current.spread, toleranceCp)
    IN  /\ pc = "loop"
        /\ coins # <<>>
        /\ coins' = Tail(coins)
        /\ members' = IF fits THEN assignToMember(members, minIndex, coin) ELSE members
        /\ totalsCp' = IF fits THEN [totalsCp EXCEPT ![minIndex] = @ + coin.valueCp] ELSE totalsCp
        /\ remainder' = IF fits THEN remainder ELSE routeToRemainder(remainder, coin)
        /\ lastCoin' = [coin |-> coin, minIndex |-> minIndex, assigned |-> fits,
                        membersBefore |-> members, totalsBefore |-> totalsCp,
                        remainderBefore |-> remainder]
        /\ UNCHANGED <<input, pc, pre, splitResult>>
        /\ UNCHANGED ledgerVars

(* The return of computeFairSplit and, with it, of computeLootSplit. *)
FairSplitReturn ==
    /\ pc = "loop"
    /\ coins = <<>>
    /\ pc' = "done"
    /\ splitResult' =
          ok([members |-> members,
              memberTotalsCp |-> totalsCp,
              partyFundSetAside |-> pre.value.setAside,
              partyFundRemainder |-> remainder,
              partyFundTotalFromOperation |-> addDenomVectors(pre.value.setAside, remainder),
              summary |-> splitSummary(totalsCp, input.partySize),
              percentTargetCp |-> pre.value.percentTargetCp,
              percentSelectedCp |-> pre.value.percentSelectedCp])
    /\ UNCHANGED <<input, pre, coins, members, totalsCp, remainder, lastCoin>>
    /\ UNCHANGED ledgerVars

(* What randomUuid() and nowIsoUtc() return to a commit: two readings that   *)
(* differ in both fields, so that a later commit can carry the lower or the *)
(* higher (timestamp, id).                                                  *)
CommitStamps ==
    { [id |-> 1, nowIsoUtc |-> MaxTime], [id |-> MaxId, nowIsoUtc |-> 1] }

(* handleCommitSplit, altered to keep the stored result after the deposit. *)
HandleCommitSplitKeepingResult ==
    \E stamp \in CommitStamps :
        LET params == [id |-> stamp.id, timestampIsoUtc |-> stamp.nowIsoUtc,
                       setAside |-> splitResult.value.partyFundSetAside,
                       remainder |-> splitResult.value.partyFundRemainder]
            txResult == createCommitToFundDepositTransaction(params)
            next == appendTransaction(ledger, txResult.value)
            done == txResult.ok /\ next.ok
        IN  /\ pc = "done"
            /\ "ok" \in DOMAIN splitResult
            /\ splitResult.ok
            /\ lastOp' = [op |-> "commit", params |-> params, txResult |-> txResult,
                          split |-> splitResult.value, before |-> ledger]
            /\ lastResult' = IF ~txResult.ok THEN Outcome(txResult) ELSE Outcome(next)
            /\ ledger' = IF done THEN next.value ELSE ledger
            /\ UNCHANGED <<input, pc, pre, coins, members, totalsCp, remainder, lastCoin,
                           splitResult>>

(* handleCommitSplit on a stored split result: one deposit of the set-aside   *)
(* plus the remainder is built and appended to the ledger, and the stored    *)
(* result is cleared; a failure leaves the session as it was.                *)
HandleCommitSplit ==
    \E stamp \in CommitStamps :
        LET params == [id |-> stamp.id, timestampIsoUtc |-> stamp.nowIsoUtc,
                       setAside |-> splitResult.value.partyFundSetAside,
                       remainder |-> splitResult.value.partyFundRemainder]
            txResult == createCommitToFundDepositTransaction(params)
            next == appendTransaction(ledger, txResult.value)
            done == txResult.ok /\ next.ok
        IN  /\ pc = "done"
            /\ "ok" \in DOMAIN splitResult
            /\ splitResult.ok
            /\ lastOp' = [op |-> "commit", params |-> params, txResult |-> txResult,
                          split |-> splitResult.value, before |-> ledger]
            /\ lastResult' = IF ~txResult.ok THEN Outcome(txResult) ELSE Outcome(next)
            /\ ledger' = IF done THEN next.value ELSE ledger
            /\ splitResult' = IF done THEN [none |-> TRUE] ELSE splitResult
            /\ pc' = IF done THEN "committed" ELSE pc
            /\ UNCHANGED <<input, pre, coins, members, totalsCp, remainder, lastCoin>>

SplitNext ==
    PreAllocate \/ FairSplitEnter \/ FairSplitCoin \/ FairSplitReturn \/ HandleCommitSplit

SplitSpec == SplitInit /\ [][SplitNext]_vars

---------------------------------------------------------------------------
(* One call of subtractDenomVectors on vectors of the caller's choosing. *)

MoneyVectors == VectorsUpTo(MaxCoins)

Subtract ==
    \E a \in MoneyVectors, b \in MoneyVectors :
        LET r == subtractDenomVectors(a, b)
        IN  /\ lastOp = NoOp
            /\ lastOp' = [op |-> "subtract", a |-> a, b |-> b, result |-> r]
            /\ lastResult' = Outcome(r)
            /\ UNCHANGED ledger
            /\ UNCHANGED splitVars

MoneyNext == Subtract

MoneySpec == Init /\ [][MoneyNext]_vars

---------------------------------------------------------------------------
(* A ledger built by appendTransaction, exported with ledgerToJsonString and *)
(* read back with parseLedgerFromJsonString.                                 *)

(* Metadata a caller attaches to a transaction: a JSON value and NaN. *)
MetaChoices == {"json", "NaN"}

(* Amounts of the transactions: two valid vectors and the all-zero one. *)
RoundTripAmounts ==
    { DenomVector(0, 0, 0, 0, 1), DenomVector(0, 1, 0, 0, 2), makeZeroDenomVector }

(* The caller appends a transaction with or without metadata. *)
AppendTransactionWithMeta ==
    \E stamp \in CommitStamps, type \in {Deposit, Withdraw},
       amounts \in RoundTripAmounts,
       meta \in { Some(m) : m \in MetaChoices } \cup {Undefined} :
        LET plain == Transaction(stamp.id, stamp.nowIsoUtc, type, amounts)
            tx == IF meta = Undefined THEN plain
                  ELSE [id |-> plain.id, timestamp |-> plain.timestamp, type |-> plain.type,
                        amounts |-> plain.amounts, meta |-> meta[1]]
            next == appendTransaction(ledger, tx)
        IN  /\ Len(ledger.transactions) < MaxTx
            /\ lastOp' = [op |-> "append", tx |-> tx, before |-> ledger]
            /\ lastResult' = Outcome(next)
            /\ ledger' = IF next.ok THEN next.value ELSE ledger
            /\ UNCHANGED splitVars

(* The ledger is exported and the text read back; the ledger stays. *)
ExportImport ==
    LET json == ledgerToJsonString(ledger)
        parsed == IF json.ok THEN parseLedgerFromJsonString(json.value) ELSE json
    IN  /\ lastOp' = [op |-> "exportImport", before |-> ledger, json |-> json,
                      parsed |-> parsed]
        /\ lastResult' = Outcome(parsed)
        /\ UNCHANGED ledger
        /\ UNCHANGED splitVars

RoundTripNext == AppendTransactionWithMeta \/ ExportImport

RoundTripSpec == Init /\ [][RoundTripNext]_vars

---------------------------------------------------------------------------
(* The session of src/app/page.tsx: the handlers of the page run one at a   *)
(* time, each to its end, on the ledger and the stored split result.        *)

(* No handler is running. *)
AtRest == pc \in {"idle", "done", "committed"}

(* What the split form holds when Calculate is pressed; the page passes no   *)
(* settings, the tolerance is the default.  A pile with a coin for the fund, *)
(* the same pile with a percent set aside, an empty pile and a party of 0.   *)
SessionSplitChoices ==
    { LootSplitInput(DenomVector(0, 1, 0, 0, 2), 2, "none", Undefined, Undefined,
                     DEFAULT_FAIRNESS_TOLERANCE_CP),
      LootSplitInput(DenomVector(0, 1, 0, 0, 2), 2, "percent", Undefined,
                     Some([num |-> 1, den |-> PercentGrain]), DEFAULT_FAIRNESS_TOLERANCE_CP),
      LootSplitInput(makeZeroDenomVector, 2, "none", Undefined, Undefined,
                     DEFAULT_FAIRNESS_TOLERANCE_CP),
      LootSplitInput(DenomVector(0, 0, 0, 0, 1), 0, "none", Undefined, Undefined,
                     DEFAULT_FAIRNESS_TOLERANCE_CP) }

(* Files selected in the session: one that is not JSON, one holding a       *)
(* deposit and a withdraw, one whose withdraw comes first, an empty ledger. *)
SessionFileChoices ==
    { [parses |-> FALSE],
      [parses |-> TRUE, value |-> FileDocument(SCHEMA_VERSION_V3, <<>>)],
      [parses |-> TRUE,
       value |-> FileDocument(SCHEMA_VERSION_V3,
                     << Transaction(1, 1, Deposit, DenomVector(0, 0, 0, 0, 1)),
                        Transaction(2, 2, Withdraw, DenomVector(0, 0, 0, 0, 1)) >>)],
      [parses |-> TRUE,
       value |-> FileDocument(SCHEMA_VERSION_V3,
                     << Transaction(2, 2, Withdraw, DenomVector(0, 0, 0, 0, 1)),
                        Transaction(1, 1, Deposit, DenomVector(0, 0, 0, 0, 1)) >>)] }

(* handleAppendTransaction: the form's type and amounts under a fresh id and *)
(* the time of the click.                                                    *)
HandleAppendTransaction ==
    \E stamp \in CommitStamps, type \in {Deposit, Withdraw}, amounts \in TxAmountChoices :
        LET tx == Transaction(stamp.id, stamp.nowIsoUtc, type, amounts)
            next == appendTransaction(ledger, tx)
        IN  /\ AtRest
            /\ Len(ledger.transactions) < MaxTx
            /\ lastOp' = [op |-> "append", tx |-> tx, before |-> ledger]
            /\ lastResult' = Outcome(next)
            /\ ledger' = IF next.ok THEN next.value ELSE ledger
            /\ UNCHANGED splitVars

(* handleCalculateSplit up to its call of computeLootSplit, whose steps      *)
(* follow; the stored result is written when computeLootSplit has returned. *)
HandleCalculateSplit ==
    \E in \in SessionSplitChoices :
        /\ AtRest
        /\ input' = in
        /\ pc' = "start"
        /\ pre' = [none |-> TRUE]
        /\ coins' = <<>>
        /\ members' = <<>>
        /\ totalsCp' = <<>>
        /\ remainder' = makeZeroDenomVector
        /\ lastCoin' = [none |-> TRUE]
        /\ splitResult' = [none |-> TRUE]
        /\ lastOp' = [op |-> "calculate", input |-> in]
        /\ UNCHANGED <<ledger, lastResult>>

(* handleCommitSplit with no stored result: it returns at once. *)
HandleCommitSplitNothingStored ==
    /\ AtRest
    /\ ~("ok" \in DOMAIN splitResult /\ splitResult.ok)
    /\ lastOp' = [op |-> "commitNothingStored", before |-> ledger]
    /\ UNCHANGED <<ledger, lastResult>>
    /\ UNCHANGED splitVars

(* handleImport on a selected file, once the file has been read. *)
HandleImportInSession ==
    \E file \in SessionFileChoices :
        LET parsed == parseLedgerFromJsonString(file)
        IN  /\ AtRest
            /\ lastOp' = [op |-> "import", file |-> file, before |-> ledger]
            /\ lastResult' = Outcome(parsed)
            /\ IF parsed.ok
               THEN /\ \E stamp \in CommitStamps :
                          ledger' = withLastModifiedAt(parsed.value, stamp.nowIsoUtc)
                    /\ splitResult' = [none |-> TRUE]
               ELSE UNCHANGED <<ledger, splitResult>>
            /\ UNCHANGED <<input, pc, pre, coins, members, totalsCp, remainder, lastCoin>>

(* handleExport: the ledger is serialised and downloaded; the session keeps *)
(* what it had.                                                             *)
HandleExport ==
    /\ AtRest
    /\ lastOp' = [op |-> "export", json |-> ledgerToJsonString(ledger)]
    /\ UNCHANGED <<ledger, lastResult>>
    /\ UNCHANGED splitVars

(* handleCommitSplit while the ledger has room for the deposit. *)
HandleCommitSplitInSession ==
    /\ Len(ledger.transactions) < MaxTx
    /\ HandleCommitSplit

SessionNext ==
    \/ HandleAppendTransaction
    \/ HandleCalculateSplit
    \/ PreAllocate
    \/ FairSplitEnter
    \/ FairSplitCoin
    \/ FairSplitReturn
    \/ HandleCommitSplitInSession
    \/ HandleCommitSplitNothingStored
    \/ HandleImportInSession
    \/ HandleExport

SessionSpec == Init /\ [][SessionNext]_vars

---------------------------------------------------------------------------
(* Vocabulary of the ledger claims. *)

SignedAmounts(tx) ==
    IF tx.type = Deposit THEN tx.amounts
    ELSE DenomVector(0 - tx.amounts.pp, 0 - tx.amounts.gp, 0 - tx.amounts.ep,
                     0 - tx.amounts.sp, 0 - tx.amounts.cp)

(* Deposits minus withdraws over the first k transactions of txs. *)
RECURSIVE SignedSum(_, _)
SignedSum(txs, k) ==
    IF k = 0 THEN makeZeroDenomVector
    ELSE addDenomVectors(SignedSum(txs, k - 1), SignedAmounts(txs[k]))

(* Some prefix of txs, taken in the order given, has a negative balance. *)
PrefixOverdraws(txs) ==
    \E k \in 1..Len(txs) : \E d \in Denominations : SignedSum(txs, k)[d] < 0

(* Some withdraw exceeds the balance before it in (timestamp, id) order. *)
ReplayOverdraws(txs) == PrefixOverdraws(sortTransactions(txs))

(* A value a successful replay can return: a count >= 0 per denomination. *)
IsBalance(v) == DOMAIN v = Denominations /\ \A d \in Denominations : v[d] \in Nat

(* Denominations of amounts that exceed balance, and the first in pp..cp order. *)
ShortDenoms(balance, amounts) == { d \in Denominations : amounts[d] > balance[d] }

FirstShortDenom(balance, amounts) ==
    DENOMINATIONS_DESC[CHOOSE i \in 1..Len(DENOMINATIONS_DESC) :
        /\ DENOMINATIONS_DESC[i] \in ShortDenoms(balance, amounts)
        /\ \A j \in 1..(i - 1) : DENOMINATIONS_DESC[j] \notin ShortDenoms(balance, amounts)]

---------------------------------------------------------------------------
(* C1: a ledger built from the empty document by successful appendTransaction *)
(* calls never overdraws in the replay of computeBalance: in ascending        *)
(* (timestamp, id) order no prefix has a negative balance in any denomination. *)
C1_NoOverdraftInReplayOrder == ~ReplayOverdraws(ledger.transactions)

C6_OverdrawingWithdrawRejected ==
    LET balance == computeBalance(lastOp.before.transactions)
    IN  ( /\ lastOp.op = "append"
          /\ lastOp.tx.type = Withdraw
          /\ validateDenomVector(lastOp.tx.amounts).ok
          /\ ShortDenoms(balance, lastOp.tx.amounts) # {} )
        => /\ lastResult = [ok |-> FALSE,
                            error |-> [code |-> "INSUFFICIENT_FUNDS_DENOM",
                                       details |-> [denom |-> FirstShortDenom(balance, lastOp.tx.amounts)]]]
           /\ ledger = lastOp.before

(* A withdraw short in two denominations, attempted on a non-empty ledger. *)
C6_Witness ==
    /\ lastOp.op = "append"
    /\ lastOp.tx.type = Withdraw
    /\ lastOp.before.transactions # <<>>
    /\ Cardinality(ShortDenoms(computeBalance(lastOp.before.transactions), lastOp.tx.amounts)) = 2
    /\ ~lastResult.ok
    /\ lastResult.error.details = [denom |-> "gp"]

(* A parsed document of the current schema version whose transactions each  *)
(* have a known type and valid, not all-zero amounts.                       *)
WellFormedFile(file) ==
    /\ file.parses
    /\ file.value.schemaVersion = SCHEMA_VERSION_V3
    /\ \A i \in 1..Len(file.value.transactions) :
           /\ file.value.transactions[i].type \in {Deposit, Withdraw}
           /\ validateTransaction(file.value.transactions[i]).ok

(* C7: a well-formed file in which, in file order, some withdraw exceeds the *)
(* running balance in a denomination is rejected with                        *)
(* INSUFFICIENT_FUNDS_DENOM; and after any rejected import the session's     *)
(* ledger document is the one it had before the import.                      *)
C7_FileOrderOverdraftRejected ==
    lastOp.op = "import" =>
        /\ ( WellFormedFile(lastOp.file) /\ PrefixOverdraws(lastOp.file.value.transactions) )
           => ( ~lastResult.ok /\ lastResult.error.code = "INSUFFICIENT_FUNDS_DENOM" )
        /\ ~lastResult.ok => ledger = lastOp.before

(* A session holding an imported ledger rejects a well-formed file that      *)
(* overdraws in file order but not in (timestamp, id) order.                 *)
C7_Witness ==
    /\ lastOp.op = "import"
    /\ lastOp.before.transactions # <<>>
    /\ WellFormedFile(lastOp.file)
    /\ PrefixOverdraws(lastOp.file.value.transactions)
    /\ ~ReplayOverdraws(lastOp.file.value.transactions)
    /\ ~lastResult.ok
    /\ ledger = lastOp.before


---------------------------------------------------------------------------
(* Vocabulary of the split claims. *)

(* The value of a vector at 1000 : 100 : 50 : 10 : 1. *)
ValueOf(v) == 1000 * v.pp + 100 * v.gp + 50 * v.ep + 10 * v.sp + v.cp

RECURSIVE MemberSum(_, _, _)
MemberSum(ms, d, k) == IF k = 0 THEN 0 ELSE MemberSum(ms, d, k - 1) + ms[k][d]

Values(totals) == { totals[i] : i \in 1..Len(totals) }

MinOf(totals) == CHOOSE x \in Values(totals) : \A y \in Values(totals) : x <= y

MaxOf(totals) == CHOOSE x \in Values(totals) : \A y \in Values(totals) : x >= y

SpreadOf(totals) == MaxOf(totals) - MinOf(totals)

(* floor(total * num / den) for 0 <= num <= den. *)
FloorOfShare(total, p) ==
    CHOOSE n \in 0..total : n * p.den <= total * p.num /\ (n + 1) * p.den > total * p.num

Tolerance == input.settings.lootSplit.fairnessToleranceCp

CoinProcessed == pc \in {"loop", "done"} /\ "coin" \in DOMAIN lastCoin

Returned == pc = "done" /\ splitResult.ok

---------------------------------------------------------------------------
(* C2: whenever computeLootSplit succeeds, the member allocations plus        *)
(* partyFundSetAside plus partyFundRemainder add up to the loot in each of    *)
(* the five denominations.                                                    *)
C2_Conservation ==
    Returned =>
        \A d \in Denominations :
            MemberSum(splitResult.value.members, d, Len(splitResult.value.members))
              + splitResult.value.partyFundSetAside[d]
              + splitResult.value.partyFundRemainder[d] = input.loot[d]

(* A percent split with coins set aside, coins diverted and coins handed out. *)
C2_Witness ==
    /\ Returned
    /\ input.mode = "percent"
    /\ splitResult.value.partyFundSetAside # makeZeroDenomVector
    /\ splitResult.value.partyFundRemainder # makeZeroDenomVector
    /\ \E i \in 1..Len(splitResult.value.members) :
          splitResult.value.members[i] # makeZeroDenomVector

(* C4: after each coin computeFairSplit processes, and at return, the member  *)
(* totals differ by at most the tolerance T, and the reported spreadCp is at  *)
(* most T.                                                                    *)
C4_SpreadWithinTolerance ==
    /\ (pc \in {"loop", "done"} /\ totalsCp # <<>>) => SpreadOf(totalsCp) <= Tolerance
    /\ Returned => splitResult.value.summary.spreadCp <= Tolerance

(* A split that ends with the spread at the tolerance and a coin diverted. *)
C4_Witness ==
    /\ Returned
    /\ input.partySize >= 2
    /\ Tolerance > 0
    /\ splitResult.value.summary.spreadCp = Tolerance
    /\ splitResult.value.partyFundRemainder # makeZeroDenomVector

(* C5: when percent-mode pre-allocation succeeds, the value set aside is at   *)
(* most floor(totalValue(loot) * p) and percentTargetCp is that floor.        *)
C5_PercentUnderTarget ==
    (pc # "start" /\ input.mode = "percent" /\ pre.ok) =>
        LET target == FloorOfShare(ValueOf(input.loot), input.percent[1])
        IN  /\ ValueOf(pre.value.setAside) <= target
            /\ pre.value.percentTargetCp = Some(target)

(* A percent skim that takes coins and stays strictly under its target. *)
C5_Witness ==
    /\ pc # "start" /\ input.mode = "percent" /\ pre.ok
    /\ pre.value.setAside # makeZeroDenomVector
    /\ ValueOf(pre.value.setAside) < FloorOfShare(ValueOf(input.loot), input.percent[1])

(* C8: with party size 1 computeFairSplit gives every coin of the remaining   *)
(* loot to the sole member, whatever the tolerance: members[0] is the input   *)
(* vector and partyFundRemainder is zero.                                     *)
C8_SoleMemberTakesAll ==
    (Returned /\ input.partySize = 1) =>
        /\ splitResult.value.members = <<pre.value.remaining>>
        /\ splitResult.value.partyFundRemainder = makeZeroDenomVector

(* A sole member receiving coins of several denominations at tolerance 0. *)
C8_Witness ==
    /\ Returned /\ input.partySize = 1 /\ Tolerance = 0
    /\ pre.value.remaining.pp > 0 /\ pre.value.remaining.cp > 0
    /\ splitResult.value.members[1].pp > 0

(* C9: coins are processed in descending unit value and each goes to exactly  *)
(* one destination: to the minimum-total member if the spread after that      *)
(* assignment is <= the current spread + T, to partyFundRemainder otherwise.  *)
(* With T = 10, N = 2 and a single gp coin: the coin is diverted and both     *)
(* members stay empty.                                                        *)
C9_CoinDestination ==
    /\ CoinProcessed =>
          LET c == lastCoin.coin
              m == lastCoin.minIndex
              tb == lastCoin.totalsBefore
              spreadIf == SpreadOf([tb EXCEPT ![m] = @ + ValueOf(takeOf(c.denom, 1))])
          IN  /\ tb[m] = MinOf(tb)
              /\ \A k \in 1..Len(coins) : ValueOf(takeOf(coins[k].denom, 1)) <= ValueOf(takeOf(c.denom, 1))
              /\ IF spreadIf <= SpreadOf(tb) + Tolerance
                 THEN /\ members = [lastCoin.membersBefore EXCEPT ![m] = addDenomVectors(@, takeOf(c.denom, 1))]
                      /\ totalsCp = [tb EXCEPT ![m] = @ + ValueOf(takeOf(c.denom, 1))]
                      /\ remainder = lastCoin.remainderBefore
                 ELSE /\ members = lastCoin.membersBefore
                      /\ totalsCp = tb
                      /\ remainder = addDenomVectors(lastCoin.remainderBefore, takeOf(c.denom, 1))
    /\ ( /\ pc = "done"
         /\ input.loot = DenomVector(0, 1, 0, 0, 0) /\ input.mode = "none"
         /\ input.partySize = 2 /\ Tolerance = 10 )
       => /\ splitResult.ok
          /\ splitResult.value.members = <<makeZeroDenomVector, makeZeroDenomVector>>
          /\ splitResult.value.partyFundRemainder = input.loot

(* A coin assigned exactly at the tolerance after an earlier coin was diverted. *)
C9_Witness ==
    /\ CoinProcessed
    /\ lastCoin.assigned
    /\ lastCoin.remainderBefore # makeZeroDenomVector
    /\ SpreadOf(totalsCp) = SpreadOf(lastCoin.totalsBefore) + Tolerance
    /\ Tolerance > 0

(* C10: a coin assigned to a member goes to a member with the minimum running *)
(* total and, among those, the smallest index; with all totals equal it goes  *)
(* to index 0 (position 1).                                                   *)
C10_LowestIndexMinimum ==
    (CoinProcessed /\ lastCoin.assigned) =>
        LET m == lastCoin.minIndex
            tb == lastCoin.totalsBefore
        IN  /\ \A j \in 1..Len(tb) : tb[m] <= tb[j]
            /\ \A j \in 1..(m - 1) : tb[j] > tb[m]
            /\ totalsCp[m] > tb[m]
            /\ (\A j \in 1..Len(tb) : tb[j] = tb[1]) => m = 1

(* A tie at a non-zero total broken in favour of index 0, and a later member  *)
(* chosen when it alone has the minimum.                                      *)
C10_Witness ==
    /\ CoinProcessed /\ lastCoin.assigned
    /\ Len(totalsCp) = 2
    /\ lastCoin.totalsBefore[1] = lastCoin.totalsBefore[2]
    /\ lastCoin.totalsBefore[1] > 0
    /\ lastCoin.minIndex = 1

---------------------------------------------------------------------------
(* C11: fixed-mode pre-allocation of a valid fixed vector from a valid loot:  *)
(* if fixed exceeds the loot in some denomination the result is               *)
(* FIXED_PREALLOCATION_EXCEEDS_LOOT with the first such denomination in pp,   *)
(* gp, ep, sp, cp order and the requested and available counts; otherwise it  *)
(* succeeds with setAside = fixed and remaining = loot - fixed.               *)
C11_FixedPreAllocation ==
    ( /\ pc # "start" /\ input.mode = "fixed" /\ input.fixed # Undefined
      /\ validateDenomVector(input.loot).ok
      /\ validateDenomVector(input.fixed[1]).ok )
    => LET fixed == input.fixed[1]
           d == FirstShortDenom(input.loot, fixed)
       IN  IF ShortDenoms(input.loot, fixed) # {}
           THEN pre = [ok |-> FALSE,
                       error |-> [code |-> "FIXED_PREALLOCATION_EXCEEDS_LOOT",
                                  details |-> [denom |-> d, fixed |-> fixed[d],
                                               loot |-> input.loot[d]]]]
           ELSE /\ pre.ok
                /\ pre.value.setAside = fixed
                /\ \A e \in Denominations :
                       pre.value.remaining[e] = input.loot[e] - fixed[e]

(* A fixed set-aside short in two denominations of a non-empty loot. *)
C11_Witness ==
    /\ pc # "start" /\ input.mode = "fixed" /\ input.fixed # Undefined
    /\ validateDenomVector(input.loot).ok
    /\ input.loot # makeZeroDenomVector
    /\ validateDenomVector(input.fixed[1]).ok
    /\ Cardinality(ShortDenoms(input.loot, input.fixed[1])) = 2
    /\ ~pre.ok
    /\ pre.error.details.denom = "gp"

---------------------------------------------------------------------------
(* C12: createCommitToFundDepositTransaction returns one Deposit whose amounts *)
(* are setAside + remainder in every denomination (the split result's          *)
(* partyFundTotalFromOperation) and which carries the caller's id and          *)
(* timestamp; when setAside + remainder is all-zero it returns                 *)
(* ZERO_AMOUNT_TRANSACTION and no transaction reaches the ledger.              *)
C12_OneCommitDeposit ==
    lastOp.op = "commit" =>
        LET p == lastOp.params
            r == lastOp.txResult
        IN  IF \A d \in Denominations : p.setAside[d] + p.remainder[d] = 0
            THEN /\ r = [ok |-> FALSE,
                         error |-> [code |-> "ZERO_AMOUNT_TRANSACTION", details |-> NoDetails]]
                 /\ ledger = lastOp.before
            ELSE /\ r.ok
                 /\ r.value.type = Deposit
                 /\ \A d \in Denominations :
                        r.value.amounts[d] = p.setAside[d] + p.remainder[d]
                 /\ r.value.amounts = lastOp.split.partyFundTotalFromOperation
                 /\ r.value.id = p.id
                 /\ r.value.timestamp = p.timestampIsoUtc
                 /\ ledger.transactions = Append(lastOp.before.transactions, r.value)

(* A commit of a split with coins set aside and coins diverted. *)
C12_Witness ==
    /\ lastOp.op = "commit"
    /\ lastOp.params.setAside # makeZeroDenomVector
    /\ lastOp.params.remainder # makeZeroDenomVector
    /\ lastOp.txResult.ok
    /\ Len(ledger.transactions) = 1

---------------------------------------------------------------------------
(* C13: appendTransaction rejects with ZERO_AMOUNT_TRANSACTION a Deposit or   *)
(* Withdraw whose amounts are zero in all five denominations, whatever the    *)
(* balance, and the document is the one the caller had.                       *)
C13_ZeroAmountRejected ==
    ( /\ lastOp.op = "append"
      /\ \A d \in Denominations : lastOp.tx.amounts[d] = 0 )
    => /\ lastResult = [ok |-> FALSE,
                        error |-> [code |-> "ZERO_AMOUNT_TRANSACTION", details |-> NoDetails]]
       /\ ledger = lastOp.before

(* An all-zero withdraw attempted on a ledger with a non-zero balance. *)
C13_Witness ==
    /\ lastOp.op = "append"
    /\ lastOp.tx.type = Withdraw
    /\ lastOp.tx.amounts = makeZeroDenomVector
    /\ computeBalance(lastOp.before.transactions) # makeZeroDenomVector
    /\ ~lastResult.ok

---------------------------------------------------------------------------
(* C14: a successful appendTransaction(ledger, tx) returns a document whose   *)
(* transaction list is the old list, in the same order, followed by tx, whose *)
(* lastModifiedAt is tx.timestamp and whose schemaVersion and createdAt are   *)
(* those of the old document.                                                 *)
C14_AppendAtEnd ==
    (lastOp.op = "append" /\ lastResult.ok) =>
        /\ Len(ledger.transactions) = Len(lastOp.before.transactions) + 1
        /\ \A i \in 1..Len(lastOp.before.transactions) :
               ledger.transactions[i] = lastOp.before.transactions[i]
        /\ ledger.transactions[Len(ledger.transactions)] = lastOp.tx
        /\ ledger.lastModifiedAt = lastOp.tx.timestamp
        /\ ledger.schemaVersion = lastOp.before.schemaVersion
        /\ ledger.createdAt = lastOp.before.createdAt

(* A transaction stamped earlier than the one already in the ledger is added. *)
C14_Witness ==
    /\ lastOp.op = "append" /\ lastResult.ok
    /\ Len(lastOp.before.transactions) = 1
    /\ lastOp.tx.timestamp < lastOp.before.transactions[1].timestamp
    /\ Len(ledger.transactions) = 2

---------------------------------------------------------------------------
(* The lists that hold the transactions of txs in some order. *)
PermutationsOf(txs) ==
    { [i \in 1..Len(txs) |-> txs[f[i]]] : f \in Permutations(1..Len(txs)) }

(* No two transactions of txs share both timestamp and id. *)
KeysDistinct(txs) ==
    \A i, j \in 1..Len(txs) :
        (txs[i].timestamp = txs[j].timestamp /\ txs[i].id = txs[j].id) => i = j

---------------------------------------------------------------------------
(* C16: in every ledger document reached by successful appendTransaction      *)
(* calls the ids of the transactions are pairwise distinct.                   *)
C16_IdsPairwiseDistinct ==
    \A i, j \in 1..Len(ledger.transactions) :
        ledger.transactions[i].id = ledger.transactions[j].id => i = j

---------------------------------------------------------------------------
(* A percent the code accepts: a number from 0 to 1. *)
ValidPercent(percent) ==
    percent # Undefined /\ percent[1].num >= 0 /\ percent[1].num <= percent[1].den

(* C17: percent-mode pre-allocation of a valid loot of total value 0 is       *)
(* rejected with the error for a degenerate loot total, for every percent     *)
(* from 0 to 1; it does not succeed with an empty set-aside.                  *)
C17_PercentOfNothingRejected ==
    ( /\ pc # "start" /\ input.mode = "percent"
      /\ validateDenomVector(input.loot).ok
      /\ ValueOf(input.loot) = 0
      /\ ValidPercent(input.percent) )
    => ( ~pre.ok /\ pre.error.code = "INVALID_LOOT_DENOMINATOR" )

---------------------------------------------------------------------------
(* C18: subtractDenomVectors(a, b) fails with INSUFFICIENT_FUNDS_DENOM exactly *)
(* when b exceeds a in some denomination, naming the first such denomination   *)
(* in pp, gp, ep, sp, cp order, whatever a holds in the other denominations;   *)
(* when it succeeds the result is a[d] - b[d] in every denomination.           *)
C18_SubtractPerDenomination ==
    lastOp.op = "subtract" =>
        LET a == lastOp.a
            b == lastOp.b
            r == lastOp.result
        IN  IF \E d \in Denominations : b[d] > a[d]
            THEN r = [ok |-> FALSE,
                      error |-> [code |-> "INSUFFICIENT_FUNDS_DENOM",
                                 details |-> [denom |-> FirstShortDenom(a, b)]]]
            ELSE /\ r.ok
                 /\ \A d \in Denominations : r.value[d] = a[d] - b[d]

(* A subtraction short in two denominations although a is worth more than b. *)
C18_Witness ==
    /\ lastOp.op = "subtract"
    /\ Cardinality(ShortDenoms(lastOp.a, lastOp.b)) = 2
    /\ ValueOf(lastOp.a) > ValueOf(lastOp.b)
    /\ ~lastOp.result.ok
    /\ lastOp.result.error.details.denom = "sp"

---------------------------------------------------------------------------
(* C19: every vector returned on success by computePreAllocation,             *)
(* computeFairSplit, computeLootSplit, createCommitToFundDepositTransaction   *)
(* and computeBalance has a count >= 0 in every denomination: set-aside,      *)
(* remaining, each member allocation, split remainder, fund total,            *)
(* transaction amounts and balance.                                           *)
C19_NonNegativeOutputs ==
    /\ (pc \notin {"idle", "start"} /\ pre.ok) =>
           /\ IsBalance(pre.value.setAside)
           /\ IsBalance(pre.value.remaining)
    /\ pc = "loop" =>
           /\ \A i \in 1..Len(members) : IsBalance(members[i])
           /\ IsBalance(remainder)
    /\ Returned =>
           /\ \A i \in 1..Len(splitResult.value.members) :
                  IsBalance(splitResult.value.members[i])
           /\ IsBalance(splitResult.value.partyFundSetAside)
           /\ IsBalance(splitResult.value.partyFundRemainder)
           /\ IsBalance(splitResult.value.partyFundTotalFromOperation)
    /\ (lastOp.op = "commit" /\ lastOp.txResult.ok) =>
           IsBalance(lastOp.txResult.value.amounts)
    /\ IsBalance(computeBalance(ledger.transactions))

(* A committed percent split with coins set aside, handed out and diverted. *)
C19_Witness ==
    /\ pc = "committed"
    /\ input.mode = "percent"
    /\ pre.value.setAside # makeZeroDenomVector
    /\ \E i \in 1..Len(members) : members[i] # makeZeroDenomVector
    /\ remainder # makeZeroDenomVector
    /\ lastOp.op = "commit" /\ lastOp.txResult.ok
    /\ computeBalance(ledger.transactions) # makeZeroDenomVector

---------------------------------------------------------------------------
(* The outputs as functions of the inputs alone. *)

(* The denominations of the coins of loot, highest unit value first. *)
RECURSIVE CoinDenomsFrom(_, _)
CoinDenomsFrom(loot, i) ==
    IF i > Len(DENOMINATIONS_DESC) THEN <<>>
    ELSE [k \in 1..loot[DENOMINATIONS_DESC[i]] |-> DENOMINATIONS_DESC[i]]
         \o CoinDenomsFrom(loot, i + 1)

(* Members and remainder after the first k coins of ds, for n members and    *)
(* tolerance t: a coin goes to the lowest-index member of least value if the *)
(* spread after that is at most the spread before plus t.                    *)
RECURSIVE SplitAfter(_, _, _, _)
SplitAfter(ds, k, n, t) ==
    IF k = 0
    THEN [members |-> [i \in 1..n |-> makeZeroDenomVector], remainder |-> makeZeroDenomVector]
    ELSE LET prev == SplitAfter(ds, k - 1, n, t)
             totals == [i \in 1..n |-> ValueOf(prev.members[i])]
             m == CHOOSE i \in 1..n :
                      \A j \in 1..n : totals[i] < totals[j] \/ (totals[i] = totals[j] /\ i <= j)
             after == [totals EXCEPT ![m] = @ + ValueOf(takeOf(ds[k], 1))]
         IN  IF SpreadOf(after) <= SpreadOf(totals) + t
             THEN [prev EXCEPT !.members[m][ds[k]] = @ + 1]
             ELSE [prev EXCEPT !.remainder[ds[k]] = @ + 1]

(* The percent skim from denomination i on with `selected` cp taken so far:  *)
(* of each denomination as many coins as stay within the target.             *)
RECURSIVE SkimFrom(_, _, _, _)
SkimFrom(loot, target, i, selected) ==
    IF i > Len(DENOMINATIONS_DESC) THEN makeZeroDenomVector
    ELSE LET d == DENOMINATIONS_DESC[i]
             v == ValueOf(takeOf(d, 1))
             take == CHOOSE c \in 0..loot[d] :
                         /\ selected + c * v <= target
                         /\ (c = loot[d] \/ selected + (c + 1) * v > target)
         IN  addDenomVectors(takeOf(d, take), SkimFrom(loot, target, i + 1, selected + take * v))

SkimOf(in) ==
    IF in.mode = "none" THEN makeZeroDenomVector
    ELSE IF in.mode = "fixed"
         THEN IF in.fixed = Undefined THEN makeZeroDenomVector ELSE in.fixed[1]
    ELSE SkimFrom(in.loot, FloorOfShare(ValueOf(in.loot), in.percent[1]), 1, 0)

BalanceOf(txs) ==
    IF ReplayOverdraws(txs) THEN makeZeroDenomVector ELSE SignedSum(txs, Len(txs))

(* C20: the outputs of computePreAllocation, computeFairSplit, computeLootSplit *)
(* and computeBalance are functions of their inputs, so two runs on identical  *)
(* inputs agree on which coins are skimmed and on which member receives each   *)
(* coin.  The pre-allocation is compared when it has returned (pc = "split"),  *)
(* the split when computeLootSplit has returned, both against the input alone. *)
C20_OutputsDeterminedByInputs ==
    /\ pc = "split" =>
           LET skim == SkimOf(input)
           IN  /\ pre.value.setAside = skim
               /\ \A d \in Denominations :
                      pre.value.remaining[d] = input.loot[d] - skim[d]
    /\ Returned =>
           LET skim == SkimOf(input)
               left == [d \in Denominations |-> input.loot[d] - skim[d]]
               ds == CoinDenomsFrom(left, 1)
               out == SplitAfter(ds, Len(ds), input.partySize, Tolerance)
           IN  /\ Len(splitResult.value.members) = input.partySize
               /\ Len(splitResult.value.memberTotalsCp) = input.partySize
               /\ \A i \in 1..input.partySize :
                      /\ splitResult.value.members[i] = out.members[i]
                      /\ splitResult.value.memberTotalsCp[i] = ValueOf(out.members[i])
               /\ splitResult.value.partyFundRemainder = out.remainder
               /\ splitResult.value.partyFundSetAside = skim
    /\ computeBalance(ledger.transactions) = BalanceOf(ledger.transactions)

(* A percent split of three members in which a coin is skimmed, a tie between *)
(* members is broken and a coin is diverted.                                  *)
C20_Witness ==
    /\ Returned
    /\ input.mode = "percent"
    /\ input.partySize = 3
    /\ splitResult.value.partyFundSetAside # makeZeroDenomVector
    /\ splitResult.value.partyFundRemainder # makeZeroDenomVector
    /\ splitResult.value.members[1] # makeZeroDenomVector
    /\ splitResult.value.members[2] = makeZeroDenomVector

---------------------------------------------------------------------------
(* C21: after a successful appendTransaction on a ledger built by successful  *)
(* appends, computeBalance of the new ledger is computeBalance of the old one *)
(* plus the amounts of a Deposit, minus the amounts of a Withdraw, in every   *)
(* denomination, whatever timestamp and id the transaction carries.           *)
C21_AppendChangesBalanceByAmounts ==
    (lastOp.op = "append" /\ lastResult.ok) =>
        LET old == computeBalance(lastOp.before.transactions)
            new == computeBalance(ledger.transactions)
        IN  \A d \in Denominations :
                new[d] = old[d] + SignedAmounts(lastOp.tx)[d]

---------------------------------------------------------------------------
(* C22: for every document validateLedgerDocumentObject accepts, the replay   *)
(* of computeBalance over its transactions never overdraws, and the balance   *)
(* it returns is, in every denomination, the deposits minus the withdraws of  *)
(* the document: the balance the import check ended with.                     *)
C22_AcceptedFileReplaysToItsSum ==
    (lastOp.op = "import" /\ lastResult.ok) =>
        LET txs == lastOp.file.value.transactions
            balance == computeBalance(txs)
        IN  /\ ~ReplayOverdraws(txs)
            /\ \A d \in Denominations : balance[d] = SignedSum(txs, Len(txs))[d]

---------------------------------------------------------------------------
(* C23: for a party of two or more and tolerance T, computeFairSplit diverts  *)
(* to partyFundRemainder exactly the coins of unit value above T and hands    *)
(* every coin of unit value at most T to a member; with the default T all pp, *)
(* gp and ep coins are diverted and all sp and cp coins go to members.        *)
C23_DivertedIffAboveTolerance ==
    (Returned /\ input.partySize >= 2) =>
        LET out == splitResult.value
            handed(d) == MemberSum(out.members, d, Len(out.members))
        IN  /\ \A d \in Denominations :
                   IF COIN_VALUE_CP[d] > Tolerance
                   THEN /\ out.partyFundRemainder[d] = pre.value.remaining[d]
                        /\ handed(d) = 0
                   ELSE /\ out.partyFundRemainder[d] = 0
                        /\ handed(d) = pre.value.remaining[d]
            /\ Tolerance = DEFAULT_FAIRNESS_TOLERANCE_CP =>
                   /\ \A d \in {"pp", "gp", "ep"} :
                          out.partyFundRemainder[d] = pre.value.remaining[d]
                   /\ \A d \in {"sp", "cp"} : handed(d) = pre.value.remaining[d]

(* A split under the default tolerance among three members of a pile holding *)
(* a coin above the tolerance, a coin at it and a coin below it.             *)
C23_Witness ==
    /\ Returned
    /\ input.partySize = 3
    /\ Tolerance = DEFAULT_FAIRNESS_TOLERANCE_CP
    /\ pre.value.remaining.ep > 0
    /\ pre.value.remaining.sp > 0
    /\ pre.value.remaining.cp > 0
    /\ splitResult.value.partyFundRemainder.ep > 0
    /\ \E i \in 1..3 : splitResult.value.members[i].sp > 0

---------------------------------------------------------------------------
(* Vocabulary of the session claims. *)

(* Two lists hold the same transactions in the same order. *)
SameList(a, b) == Len(a) = Len(b) /\ \A i \in 1..Len(a) : a[i] = b[i]

(* b is a with one transaction added at the end. *)
ExtendedByOne(a, b) ==
    Len(b) = Len(a) + 1 /\ \A i \in 1..Len(a) : a[i] = b[i]

(* A result is stored for handleCommitSplit to commit. *)
ResultStored(r) == "ok" \in DOMAIN r /\ r.ok

(* C24: every step of the session leaves the ledger's transaction list as it  *)
(* was, or extends it by one transaction at the end (a successful append or   *)
(* commit), or replaces it by the transaction list of a file the import has   *)
(* validated; no step removes, reorders or edits a transaction.               *)
C24_LedgerOnlyGrowsOrIsReplaced ==
    [][ \/ SameList(ledger.transactions, ledger'.transactions)
        \/ /\ ExtendedByOne(ledger.transactions, ledger'.transactions)
           /\ lastOp'.op \in {"append", "commit"}
           /\ lastResult'.ok
        \/ /\ lastOp'.op = "import"
           /\ lastResult'.ok
           /\ validateLedgerDocumentObject(lastOp'.file.value).ok
           /\ SameList(lastOp'.file.value.transactions, ledger'.transactions)
      ]_vars

(* An import that replaced a ledger holding a committed deposit and an added *)
(* deposit by the empty list of a file.                                      *)
C24_Witness ==
    /\ lastOp.op = "import"
    /\ lastResult.ok
    /\ Len(lastOp.before.transactions) = 2
    /\ lastOp.before.transactions[1].amounts = DenomVector(0, 1, 0, 0, 0)
    /\ lastOp.before.transactions[2].amounts = DenomVector(0, 0, 0, 0, 1)
    /\ ledger.transactions = <<>>

(* C25: a commit that appends its deposit clears the stored split result; a   *)
(* commit finds a result to deposit only if one is stored, and one is stored  *)
(* only by the return of a calculation; a commit with nothing stored leaves   *)
(* the ledger as it was.  So each calculated result adds at most one deposit. *)
C25_OneDepositPerCalculation ==
    [][ /\ ( lastOp'.op = "commit" /\ ExtendedByOne(ledger.transactions, ledger'.transactions) )
           => ( ResultStored(splitResult) /\ ~ResultStored(splitResult') )
        /\ ( ~ResultStored(splitResult) /\ lastOp'.op \in {"commit", "commitNothingStored"} )
           => SameList(ledger.transactions, ledger'.transactions)
        /\ ( ~ResultStored(splitResult) /\ ResultStored(splitResult') )
           => ( pc = "loop" /\ pc' = "done" )
      ]_vars

(* A second commit, pressed after the deposit of the first was appended and *)
(* before any new calculation, has returned without a deposit.              *)
C25_Witness ==
    /\ lastOp.op = "commitNothingStored"
    /\ pc = "committed"
    /\ Len(ledger.transactions) = 1
    /\ ledger.transactions[1].amounts = DenomVector(0, 1, 0, 0, 0)
    /\ SameList(lastOp.before.transactions, ledger.transactions)

---------------------------------------------------------------------------
(* C26: for a valid loot of value above 0 and a percent in [0, 1], the skim   *)
(* computePreAllocation takes in closed form (per denomination from pp to cp, *)
(* min(available, floor((target - selected) / unit value)) coins) is the skim *)
(* of the sweep that takes one coin at a time while the coin still fits under *)
(* the target and leaves a denomination at the first coin that would not.     *)
C26_ClosedFormEqualsSweep ==
    ( /\ pc = "split"
      /\ input.mode = "percent"
      /\ totalCp(input.loot) > 0 ) =>
        LET swept == computePercentPreAllocationInternal(input.loot, input.percent)
        IN  /\ swept.ok
            /\ \A d \in Denominations :
                   /\ pre.value.setAside[d] = swept.value.partyFundAllocation[d]
                   /\ pre.value.remaining[d] = swept.value.remainingLoot[d]

(* A skim that passes over a denomination too large for the target, takes   *)
(* coins of a smaller one and ends below the target.                        *)
C26_Witness ==
    /\ pc = "split"
    /\ input.mode = "percent"
    /\ \E d \in {"pp", "gp", "ep", "sp"} : input.loot[d] > 0 /\ pre.value.setAside[d] = 0
    /\ pre.value.setAside.cp > 0
    /\ pre.value.percentSelectedCp[1] < pre.value.percentTargetCp[1]

---------------------------------------------------------------------------
(* The vectors that take at most what loot holds in each denomination. *)
SubVectors(loot) ==
    [pp : 0..loot.pp, gp : 0..loot.gp, ep : 0..loot.ep, sp : 0..loot.sp, cp : 0..loot.cp]

(* C27: for a valid loot and a percent in [0, 1] the percent-mode skim has    *)
(* the largest value a skim can have: no vector s with s[d] <= loot[d] in     *)
(* every denomination and totalValue(s) <= floor(totalValue(loot) * p) is     *)
(* worth more than the coins set aside.                                       *)
C27_SkimValueIsMaximal ==
    (pc = "split" /\ input.mode = "percent") =>
        LET target == FloorOfShare(ValueOf(input.loot), input.percent[1])
        IN  \A s \in SubVectors(input.loot) :
                ValueOf(s) <= target => ValueOf(s) <= ValueOf(pre.value.setAside)

(* A skim that ends below its target, of a pile with six or more            *)
(* sub-vectors, taking some but not all coins of a denomination.            *)
C27_Witness ==
    /\ pc = "split"
    /\ input.mode = "percent"
    /\ Cardinality(SubVectors(input.loot)) >= 6
    /\ ValueOf(pre.value.setAside) > 0
    /\ ValueOf(pre.value.setAside) < FloorOfShare(ValueOf(input.loot), input.percent[1])
    /\ \E d \in Denominations : pre.value.setAside[d] > 0 /\ pre.value.remaining[d] > 0

---------------------------------------------------------------------------
(* C28: computeLootSplit and computeFairSplit return INVALID_PARTY_SIZE, and  *)
(* no allocation, whenever the party size is below 1, whatever the loot, the  *)
(* pre-allocation mode and its parameter: the party size is rejected before   *)
(* any error of the pre-allocation can be reported.                           *)
C28_PartySizeRejectedFirst ==
    (pc = "done" /\ "ok" \in DOMAIN splitResult /\ input.partySize < 1) =>
        /\ ~splitResult.ok
        /\ splitResult.error.code = "INVALID_PARTY_SIZE"

---------------------------------------------------------------------------
(* The read-back document is the exported one: same schemaVersion, createdAt *)
(* and lastModifiedAt, same transactions in the same order.                  *)
ReadBackSame(op) ==
    /\ op.json.ok
    /\ op.parsed.ok
    /\ op.parsed.value.schemaVersion = op.before.schemaVersion
    /\ op.parsed.value.createdAt = op.before.createdAt
    /\ op.parsed.value.lastModifiedAt = op.before.lastModifiedAt
    /\ SameList(op.parsed.value.transactions, op.before.transactions)

(* Every transaction's metadata, if any, is a value JSON gives back. *)
MetaSurvivesJson(txs) ==
    \A i \in 1..Len(txs) :
        "meta" \in DOMAIN txs[i] => stringifyMeta(txs[i].meta) = txs[i].meta

(* C29 as claimed: any ledger built from createNewLedgerDocument by           *)
(* successful appendTransaction calls, exported with ledgerToJsonString and   *)
(* read with parseLedgerFromJsonString, comes back with the same              *)
(* schemaVersion, createdAt, lastModifiedAt and transactions in order.        *)
C29_RoundTripKeepsLedger ==
    lastOp.op = "exportImport" => ReadBackSame(lastOp)

(* C29 as amended: the same for a ledger in which the metadata of every       *)
(* transaction is a value JSON.stringify and JSON.parse give back unchanged.  *)
C29_RoundTripKeepsJsonLedger ==
    (lastOp.op = "exportImport" /\ MetaSurvivesJson(lastOp.before.transactions))
        => ReadBackSame(lastOp)

(* A read-back ledger of a deposit with JSON metadata and a withdraw stamped *)
(* before the deposit.                                                       *)
C29_Witness ==
    /\ lastOp.op = "exportImport"
    /\ Len(ledger.transactions) = 2
    /\ ledger.transactions[1].type = Deposit
    /\ "meta" \in DOMAIN ledger.transactions[1]
    /\ ledger.transactions[1].meta = "json"
    /\ ledger.transactions[2].type = Withdraw
    /\ ledger.transactions[2].timestamp < ledger.transactions[1].timestamp
    /\ MetaSurvivesJson(ledger.transactions)
    /\ ReadBackSame(lastOp)

---------------------------------------------------------------------------
(* C30: in every result of computeFairSplit, memberTotalsCp[i] is the value   *)
(* of members[i] for each member i; the summary's minCp and maxCp are the     *)
(* smallest and the largest of those totals, spreadCp is maxCp - minCp, and   *)
(* avgCp is the sum of the totals divided by the party size, rounded down;    *)
(* when the loot handed to the fair split is all zero, every member, the      *)
(* split remainder and the four statistics are zero.                          *)
C30_TotalsAndSummary ==
    Returned =>
        LET r == splitResult.value
            n == Len(r.members)
            sum == sumTotals(r.memberTotalsCp, n)
        IN  /\ n = input.partySize
            /\ Len(r.memberTotalsCp) = n
            /\ \A i \in 1..n : r.memberTotalsCp[i] = ValueOf(r.members[i])
            /\ r.summary.minCp = MinOf(r.memberTotalsCp)
            /\ r.summary.maxCp = MaxOf(r.memberTotalsCp)
            /\ r.summary.spreadCp = r.summary.maxCp - r.summary.minCp
            /\ r.summary.avgCp * n <= sum
            /\ sum < (r.summary.avgCp + 1) * n
            /\ isAllZero(pre.value.remaining) =>
                  /\ \A i \in 1..n : isAllZero(r.members[i])
                  /\ isAllZero(r.partyFundRemainder)
                  /\ r.summary.avgCp = 0
                  /\ r.summary.minCp = 0
                  /\ r.summary.maxCp = 0
                  /\ r.summary.spreadCp = 0

(* A result whose totals differ and whose sum the party size does not        *)
(* divide, so that minimum, maximum and the rounding of the average all      *)
(* matter.                                                                   *)
C30_Witness ==
    /\ Returned
    /\ splitResult.value.summary.minCp < splitResult.value.summary.maxCp
    /\ splitResult.value.summary.minCp > 0
    /\ sumTotals(splitResult.value.memberTotalsCp, input.partySize)
           % input.partySize # 0

====
